---------------------------- MODULE Spec2Model ----------------------------
(***************************************************************************)
(* bluetooth_2_hid.py: a keyboard-to-HID proxy.  Two threads share the     *)
(* input handle and the output handle: the main event loop and the reply   *)
(* listener (readHostReply).  The interpreter's exit handlers run in the   *)
(* main thread after a keyboard interrupt.                                  *)
(*                                                                         *)
(* Device handles are numbered in the order they were opened.  A handle    *)
(* in out_broken raises an I/O error on write and on read.                 *)
(***************************************************************************)
EXTENDS Integers, Sequences, FiniteSets, TLC

\* ------------------------------------------------------------------ bounds
\* Number of input handles / output handles the process may open in a run
\* (the one opened by _init included).
MaxInOpens == 2
MaxOutOpens == 3
\* Reply bytes the host sends are drawn from 0..MaxReply.
MaxReply == 8

\* -------------------------------------------------------------- vocabulary
EV_KEY == "EV_KEY"
EV_SYN == "EV_SYN"
NoEvent == [type |-> "None", keycode |-> "None", keystate |-> 0]

\* libs/hid_codes.ds_MOD_CODES: modifier key -> bit of the modifier mask
ds_MOD_CODES == [KEY_RIGHTMETA |-> 128]
\* libs/hid_codes: non-modifier key -> HID usage code
ds_KEY_CODES == [KEY_A |-> 4]

KeyCodes == DOMAIN ds_MOD_CODES \cup DOMAIN ds_KEY_CODES

\* Events read_one() can return: nothing, a non-key event, a key event with
\* keystate 0 (up), 1 (down) or 2 (hold).
Events ==
    {NoEvent, [type |-> EV_SYN, keycode |-> "None", keystate |-> 0]}
    \cup [type : {EV_KEY}, keycode : KeyCodes, keystate : 0..2]

VARIABLES
    is_test_mode_enabled,   \* _is_test_mode_enabled (-t)
    input_device,           \* _input_device: handle currently stored
    output_device,          \* _output_device: handle currently stored
    input_device_lock,      \* _input_device_lock: "free" or its holder
    output_device_lock,     \* _output_device_lock: "free" or its holder
    next_in,                \* input handles opened so far
    next_out,               \* output handles opened so far
    grabbed,                \* input handles holding the exclusive grab
    out_broken,             \* output handles whose I/O raises an error
    modifiers,              \* _virtual_keyboard: modifier mask
    active_keys,            \* _virtual_keyboard: active key list
    atexit_funcs,           \* registered exit handlers, in registration order
    atexit_input,           \* input_device bound at atexit.register
    atexit_output,          \* output_device bound at atexit.register
    pc,                     \* main thread's position
    o_event,                \* main loop: event just read
    read_from,              \* main loop: handles read_one was called on this iteration
    kbd_calls,              \* main loop: keyboard calls made this iteration
    w_caller,               \* write_to_output_device: "loop" or "exit"
    w_handle,               \* write_to_output_device: parameter output_device
    w_command,              \* write_to_output_device: parameter command
    call_writes,            \* writes issued by the current/last call
    sigint,                 \* a keyboard interrupt was delivered
    exit_log,               \* shutdown steps performed, in order
    rpc,                    \* reply thread's position
    rd,                     \* reply thread: handles select reported readable,
                            \* until the read is made or skipped
    reply,                  \* reply thread: byte received this iteration
    set_led_calls,          \* reply thread: set_led calls made this iteration
    led_error               \* reply thread: the set_led call that raised (0: none)

vars == <<is_test_mode_enabled, input_device, output_device,
          input_device_lock, output_device_lock, next_in, next_out, grabbed,
          out_broken, modifiers, active_keys, atexit_funcs, atexit_input,
          atexit_output, pc, o_event, read_from, kbd_calls, w_caller,
          w_handle, w_command,
          call_writes, sigint, exit_log, rpc, rd, reply, set_led_calls,
          led_error>>

kbd_vars == <<modifiers, active_keys>>
dev_vars == <<input_device, output_device, next_in, next_out, grabbed>>
lock_vars == <<input_device_lock, output_device_lock>>
atexit_vars == <<atexit_funcs, atexit_input, atexit_output>>
call_vars == <<w_caller, w_handle, w_command, call_writes>>
reply_vars == <<rpc, rd, reply, set_led_calls, led_error>>
cfg_vars == <<is_test_mode_enabled>>
loop_vars == <<o_event, read_from, kbd_calls>>


\* ---------------------------------------------------------------- helpers
Range(s) == {s[i] : i \in 1..Len(s)}

Last(s) == s[Len(s)]

\* Python's a & b on non-negative integers
RECURSIVE BitAnd(_, _)
BitAnd(a, b) ==
    IF a = 0 \/ b = 0 THEN 0
    ELSE (a % 2) * (b % 2) + 2 * BitAnd(a \div 2, b \div 2)

\* bytes.encode('utf-8') of a string given as its code points (all < 2048)
RECURSIVE encode_utf8(_)
encode_utf8(s) ==
    IF s = <<>> THEN <<>>
    ELSE (IF Head(s) < 128 THEN <<Head(s)>>
          ELSE <<192 + (Head(s) \div 64), 128 + (Head(s) % 64)>>)
         \o encode_utf8(Tail(s))

\* ------------------------------------------------- HidKeyboard (libs/keyboard)
\* modifier_set(code, pressed): no-op for a code that is no modifier,
\* otherwise sets or clears the modifier's bit.
modifier_set(mask, code, keystate) ==
    IF code \notin DOMAIN ds_MOD_CODES THEN mask
    ELSE LET bit == ds_MOD_CODES[code] IN
         IF keystate = 1
         THEN (IF BitAnd(mask, bit) = 0 THEN mask + bit ELSE mask)
         ELSE (IF BitAnd(mask, bit) = 0 THEN mask ELSE mask - bit)

\* activate_key(code): inserts the key's usage code if absent; a code with
\* no usage code in the key table is ignored.
activate_key(keys, code) ==
    IF code \notin DOMAIN ds_KEY_CODES THEN keys
    ELSE IF ds_KEY_CODES[code] \in Range(keys) THEN keys
    ELSE Append(keys, ds_KEY_CODES[code])

\* deactivate_key(code): removes the key's usage code if present.
deactivate_key(keys, code) ==
    IF code \notin DOMAIN ds_KEY_CODES THEN keys
    ELSE SelectSeq(keys, LAMBDA k : k # ds_KEY_CODES[code])

deactivate_all_keys(keys) == <<>>

reset_all_modifiers(mask) == 0

\* to_hid_command(): modifier byte, reserved byte, the active usage codes,
\* zero-padded to six key slots.
to_hid_command(mask, keys) ==
    <<mask, 0>> \o keys \o [i \in 1..(6 - Len(keys)) |-> 0]

\* --------------------------------------------------------------- initial state
\* The state _init leaves: both devices opened once, the input grabbed, the
\* two exit handlers registered with the handles of that moment, the reply
\* thread started.
Init ==
    /\ is_test_mode_enabled \in BOOLEAN
    /\ input_device = 0
    /\ output_device = 0
    /\ input_device_lock = "free"
    /\ output_device_lock = "free"
    /\ next_in = 1
    /\ next_out = 1
    /\ grabbed = {0}
    /\ out_broken = {}
    /\ modifiers = 0
    /\ active_keys = <<>>
    /\ atexit_funcs = <<"release_all_keys", "ungrab_input_device">>
    /\ atexit_input = 0
    /\ atexit_output = 0
    /\ pc = "loop_lock"
    /\ o_event = NoEvent
    /\ read_from = {}
    /\ kbd_calls = <<>>
    /\ w_caller = "none"
    /\ w_handle = 0
    /\ w_command = <<>>
    /\ call_writes = <<>>
    /\ sigint = FALSE
    /\ exit_log = <<>>
    /\ rpc = "select"
    /\ rd = {}
    /\ reply = 0
    /\ set_led_calls = <<>>
    /\ led_error = 0

\* ------------------------------------------------------------ main thread
LoopPcs == {"loop_lock", "read_one", "process", "write", "reopen_output",
            "set_output", "write_retry", "reopen_input", "set_input"}
ExitPcs == {"run_exitfuncs", "exited"}

\* (variant: the with block is left without releasing the lock)
main_keeps_input(lock) == lock

\* leaving a `with _input_device_lock:` block of the main thread
main_unlock_input(lock) == IF lock = "main" THEN "free" ELSE lock

\* A new iteration of while True begins: with _input_device_lock:
\* (o_event and the record of the iteration's write call start afresh)
LoopLock ==
    /\ pc = "loop_lock"
    /\ input_device_lock = "free"
    /\ input_device_lock' = "main"
    /\ o_event' = NoEvent
    /\ read_from' = {}
    /\ kbd_calls' = <<>>
    /\ w_caller' = "none"
    /\ w_handle' = 0
    /\ w_command' = <<>>
    /\ call_writes' = <<>>
    /\ pc' = "read_one"
    /\ UNCHANGED <<cfg_vars, dev_vars, output_device_lock, out_broken, kbd_vars,
                   atexit_vars, sigint, exit_log, reply_vars>>

\* (variant: the read goes to the handle opened at startup)
read_handle_startup(current) == 0

\* the handle read_one is called on: the global _input_device, read inside
\* the with block
read_handle(current) == current

\* o_event = _input_device.read_one()
ReadOne ==
    /\ pc = "read_one"
    /\ \E ev \in Events : o_event' = ev
    /\ read_from' = {read_handle(input_device)}
    /\ UNCHANGED kbd_calls
    /\ pc' = "process"
    /\ UNCHANGED <<cfg_vars, dev_vars, lock_vars, out_broken, kbd_vars,
                   atexit_vars, call_vars, sigint, exit_log, reply_vars>>

\* read_one() raises IOError: the with block is left, except IOError catches
ReadOneFails ==
    /\ pc = "read_one"
    /\ read_from' = {read_handle(input_device)}
    /\ input_device_lock' = main_unlock_input(input_device_lock)
    /\ pc' = "reopen_input"
    /\ UNCHANGED <<cfg_vars, dev_vars, output_device_lock, out_broken, kbd_vars,
                   atexit_vars, o_event, kbd_calls, call_vars, sigint,
                   exit_log, reply_vars>>

\* if o_event is not None: if o_event.type == evdev.ecodes.EV_KEY:
is_key_event(ev) == ev # NoEvent /\ ev.type = EV_KEY

\* (variant: the hold state tested against the wrong value)
is_repeat_wrong_state(ev) == ev.keystate = 3

\* if (keystate == 2): continue
is_repeat(ev) == ev.keystate = 2

\* if (keycode in hid_codes.ds_MOD_CODES): modifier_set(keycode, keystate)
loop_modifiers(mask, ev) ==
    IF ev.keycode \in DOMAIN ds_MOD_CODES
    THEN modifier_set(mask, ev.keycode, ev.keystate)
    ELSE mask

\* (variant: only a press updates the active keys)
loop_active_keys_press_only(keys, ev) ==
    IF ev.keystate = 1 THEN activate_key(keys, ev.keycode) ELSE keys

\* if keystate == 0: deactivate_key(keycode) else: activate_key(keycode)
loop_active_keys(keys, ev) ==
    IF ev.keystate = 0
    THEN deactivate_key(keys, ev.keycode)
    ELSE activate_key(keys, ev.keycode)

\* the keyboard calls the loop makes for a press or release event, in order:
\* modifier_set if the keycode is a modifier, and then, in either case,
\* deactivate_key or activate_key with the same keycode
loop_calls(ev) ==
    (IF ev.keycode \in DOMAIN ds_MOD_CODES
     THEN <<[op |-> "modifier_set", code |-> ev.keycode]>>
     ELSE <<>>)
    \o <<[op |-> IF ev.keystate = 0 THEN "deactivate_key" ELSE "activate_key",
          code |-> ev.keycode]>>

\* if not _is_test_mode_enabled: write_to_output_device(...)
loop_transmits(test_mode) == ~test_mode

\* No event, or an event that is no key event: nothing to do but sleep.
ProcessSkip ==
    /\ pc = "process"
    /\ ~is_key_event(o_event)
    /\ input_device_lock' = main_unlock_input(input_device_lock)
    /\ pc' = "loop_lock"
    /\ UNCHANGED <<cfg_vars, dev_vars, output_device_lock, out_broken, kbd_vars,
                   atexit_vars, loop_vars, call_vars, sigint, exit_log, reply_vars>>

\* A key event: a repeat is skipped with continue; a press or release
\* updates the keyboard and, unless in test mode, enters
\* write_to_output_device(_output_device, s_hid_command.encode('utf-8')).
ProcessKey ==
    /\ pc = "process"
    /\ is_key_event(o_event)
    /\ IF is_repeat(o_event)
       THEN /\ input_device_lock' = main_unlock_input(input_device_lock)
            /\ pc' = "loop_lock"
            /\ UNCHANGED <<kbd_vars, kbd_calls, call_vars>>
       ELSE /\ modifiers' = loop_modifiers(modifiers, o_event)
            /\ active_keys' = loop_active_keys(active_keys, o_event)
            /\ kbd_calls' = loop_calls(o_event)
            /\ IF loop_transmits(is_test_mode_enabled)
               THEN /\ w_caller' = "loop"
                    /\ w_handle' = output_device
                    /\ w_command' =
                         encode_utf8(to_hid_command(modifiers', active_keys'))
                    /\ call_writes' = <<>>
                    /\ pc' = "write"
                    /\ UNCHANGED input_device_lock
               ELSE /\ input_device_lock' =
                         main_unlock_input(input_device_lock)
                    /\ pc' = "loop_lock"
                    /\ UNCHANGED call_vars
    /\ UNCHANGED <<cfg_vars, dev_vars, output_device_lock, out_broken,
                   atexit_vars, o_event, read_from, sigint, exit_log,
                   reply_vars>>

\* ------------------------------------------------- write_to_output_device
\* output_device.write(command) on handle h
write_succeeds(h, broken) == h \notin broken

\* the handle of the second write: output_device.write(command) uses the
\* function's parameter, the handle the first write failed on
retry_handle(param, current) == param

\* where the main thread goes when write_to_output_device returns
after_return(caller) ==
    IF caller = "loop" THEN "loop_lock" ELSE "run_exitfuncs"

\* (variant: nothing catches the error of the second write, the main thread
\* leaves the loop and the interpreter exits)
after_retry_failure_uncaught(caller) == "run_exitfuncs"

\* where the main thread goes when the second write raises: the loop's
\* except IOError catches it and calls _set_input_device; at exit the
\* interpreter reports it and goes to the next exit handler
after_retry_failure(caller) ==
    IF caller = "loop" THEN "reopen_input" ELSE "run_exitfuncs"

\* control leaves the main loop's with block (return or exception) only when
\* the call came from the loop
lock_after_call(caller, lock) ==
    IF caller = "loop" THEN main_unlock_input(lock) ELSE lock

log_exit_write(caller, log) ==
    IF caller = "exit" THEN Append(log, "write") ELSE log

\* try: output_device.write(command)
WriteFirst ==
    /\ pc = "write"
    /\ LET ok == write_succeeds(w_handle, out_broken) IN
       /\ call_writes' = Append(call_writes, [h |-> w_handle, ok |-> ok])
       /\ IF ok
          THEN /\ pc' = after_return(w_caller)
               /\ input_device_lock' =
                    lock_after_call(w_caller, input_device_lock)
          ELSE /\ pc' = "reopen_output"
               /\ UNCHANGED input_device_lock
    /\ exit_log' = log_exit_write(w_caller, exit_log)
    /\ UNCHANGED <<cfg_vars, dev_vars, output_device_lock, out_broken, kbd_vars,
                   atexit_vars, loop_vars, w_caller, w_handle, w_command,
                   sigint, reply_vars>>

\* _set_output_device: device = open(device_path, 'wb+', buffering=0)
OpenOutput ==
    /\ pc = "reopen_output"
    /\ next_out < MaxOutOpens
    /\ next_out' = next_out + 1
    /\ pc' = "set_output"
    /\ UNCHANGED <<cfg_vars, input_device, output_device, next_in, grabbed,
                   lock_vars, out_broken, kbd_vars, atexit_vars, loop_vars,
                   call_vars, sigint, exit_log, reply_vars>>

\* _set_output_device: open raises OSError; sleep 0.2 s and try again
OpenOutputFails ==
    /\ pc = "reopen_output"
    /\ UNCHANGED vars

\* _set_output_device: with _output_device_lock: _output_device = device
SetOutput ==
    /\ pc = "set_output"
    /\ output_device_lock = "free"
    /\ output_device' = next_out - 1
    /\ pc' = "write_retry"
    /\ UNCHANGED <<cfg_vars, input_device, next_in, next_out, grabbed,
                   lock_vars, out_broken, kbd_vars, atexit_vars, loop_vars,
                   call_vars, sigint, exit_log, reply_vars>>

\* except IOError: ... output_device.write(command)
WriteRetry ==
    /\ pc = "write_retry"
    /\ LET h == retry_handle(w_handle, output_device)
           ok == write_succeeds(h, out_broken) IN
       /\ call_writes' = Append(call_writes, [h |-> h, ok |-> ok])
       /\ pc' = IF ok THEN after_return(w_caller)
                ELSE after_retry_failure(w_caller)
    /\ input_device_lock' = lock_after_call(w_caller, input_device_lock)
    /\ exit_log' = log_exit_write(w_caller, exit_log)
    /\ UNCHANGED <<cfg_vars, dev_vars, output_device_lock, out_broken, kbd_vars,
                   atexit_vars, loop_vars, w_caller, w_handle, w_command,
                   sigint, reply_vars>>

\* ------------------------------------------------------ _set_input_device
\* device = evdev.InputDevice(device_path)
OpenInput ==
    /\ pc = "reopen_input"
    /\ next_in < MaxInOpens
    /\ next_in' = next_in + 1
    /\ pc' = "set_input"
    /\ UNCHANGED <<cfg_vars, input_device, output_device, next_out, grabbed,
                   lock_vars, out_broken, kbd_vars, atexit_vars, loop_vars,
                   call_vars, sigint, exit_log, reply_vars>>

\* evdev.InputDevice raises OSError; sleep 0.2 s and try again
OpenInputFails ==
    /\ pc = "reopen_input"
    /\ UNCHANGED vars

\* with _input_device_lock: _input_device = device
SetInput ==
    /\ pc = "set_input"
    /\ input_device_lock = "free"
    /\ input_device' = next_in - 1
    /\ pc' = "loop_lock"
    /\ UNCHANGED <<cfg_vars, output_device, next_in, next_out, grabbed,
                   lock_vars, out_broken, kbd_vars, atexit_vars, loop_vars,
                   call_vars, sigint, exit_log, reply_vars>>

\* ------------------------------------------------------------- shutdown
\* A keyboard interrupt reaches the main thread anywhere in the loop; no
\* except clause of the loop catches it, the with block (if any) is left, the
\* iteration is abandoned and the interpreter runs the exit handlers.
Interrupt ==
    /\ pc \in LoopPcs
    /\ ~sigint
    /\ sigint' = TRUE
    /\ input_device_lock' = main_unlock_input(input_device_lock)
    /\ o_event' = NoEvent
    /\ read_from' = {}
    /\ kbd_calls' = <<>>
    /\ w_caller' = "none"
    /\ w_handle' = 0
    /\ w_command' = <<>>
    /\ call_writes' = <<>>
    /\ pc' = "run_exitfuncs"
    /\ UNCHANGED <<cfg_vars, dev_vars, output_device_lock, out_broken, kbd_vars,
                   atexit_vars, exit_log, reply_vars>>

\* the handler atexit runs next: the one registered last
next_exitfunc(funcs) == Last(funcs)

\* ungrab_input_device(input_device = <handle bound at registration>)
UngrabInputDevice ==
    /\ pc = "run_exitfuncs"
    /\ atexit_funcs # <<>>
    /\ next_exitfunc(atexit_funcs) = "ungrab_input_device"
    /\ atexit_funcs' = SelectSeq(atexit_funcs,
                                 LAMBDA f : f # "ungrab_input_device")
    /\ grabbed' = grabbed \ {atexit_input}
    /\ exit_log' = Append(exit_log, "ungrab")
    /\ UNCHANGED <<cfg_vars, input_device, output_device, next_in, next_out,
                   lock_vars, out_broken, kbd_vars, atexit_input,
                   atexit_output, pc, loop_vars, call_vars, sigint, reply_vars>>

\* release_all_keys(virtual_kb, output_device = <handle bound at registration>):
\*   virtual_kb.deactivate_all_keys()
\*   virtual_kb.reset_all_modifiers()
\*   write_to_output_device(output_device, to_hid_command().encode('utf-8'))
\* up to the first write of the call.
ReleaseAllKeys ==
    /\ pc = "run_exitfuncs"
    /\ atexit_funcs # <<>>
    /\ next_exitfunc(atexit_funcs) = "release_all_keys"
    /\ atexit_funcs' = SelectSeq(atexit_funcs,
                                 LAMBDA f : f # "release_all_keys")
    /\ active_keys' = deactivate_all_keys(active_keys)
    /\ modifiers' = reset_all_modifiers(modifiers)
    /\ exit_log' = exit_log \o <<"deactivate_all_keys", "reset_all_modifiers">>
    /\ w_caller' = "exit"
    /\ w_handle' = atexit_output
    /\ w_command' = encode_utf8(to_hid_command(modifiers', active_keys'))
    /\ call_writes' = <<>>
    /\ pc' = "write"
    /\ UNCHANGED <<cfg_vars, dev_vars, lock_vars, out_broken, atexit_input,
                   atexit_output, loop_vars, sigint, reply_vars>>

\* every exit handler has run: the process ends, its threads with it
ProcessExit ==
    /\ pc = "run_exitfuncs"
    /\ atexit_funcs = <<>>
    /\ pc' = "exited"
    /\ UNCHANGED <<cfg_vars, dev_vars, lock_vars, out_broken, kbd_vars,
                   atexit_vars, loop_vars, call_vars, sigint, exit_log,
                   reply_vars>>

\* ----------------------------------------------------------- readHostReply
\* the three set_led calls, in order, each with the mask its bit is read by
led_calls == <<[led |-> "LED_NUML", mask |-> 1],
               [led |-> "LED_CAPSL", mask |-> 2],
               [led |-> "LED_SCROLLL", mask |-> 4]>>

\* (variant: the reply compared with the mask instead of masked by it)
led_value_compared(r, mask) == r >= mask

\* bool(reply & mask)
led_value(r, mask) == BitAnd(r, mask) # 0

\* the first k set_led calls, made with reply r: _input_device.set_led(led, on)
set_leds(r, k) ==
    [i \in 1..k |-> [led |-> led_calls[i].led,
                     on |-> led_value(r, led_calls[i].mask)]]

\* (variant: the error of a set_led call ends the thread's function)
after_led_error_uncaught == "dead"

\* where the reply thread goes when a set_led call raises: the bare except
\* prints the error and the while loop goes on
after_led_error == "select"

\* A new iteration of while (True) begins:
\* rd, _, _ = select.select([_output_device], [], [], 0.5)
\* (reply and the record of the iteration's set_led calls start afresh)
Select ==
    /\ rpc = "select"
    /\ pc # "exited"
    /\ \E ready \in {{}, {output_device}} : rd' = ready
    /\ reply' = 0
    /\ set_led_calls' = <<>>
    /\ led_error' = 0
    /\ rpc' = "check"
    /\ UNCHANGED <<cfg_vars, dev_vars, lock_vars, out_broken, kbd_vars,
                   atexit_vars, pc, loop_vars, call_vars, sigint, exit_log>>

\* if(_output_device in rd):
CheckReadable ==
    /\ rpc = "check"
    /\ pc # "exited"
    /\ IF output_device \in rd
       THEN rpc' = "lock_output" /\ UNCHANGED rd
       ELSE rpc' = "select" /\ rd' = {}
    /\ UNCHANGED <<cfg_vars, dev_vars, lock_vars, out_broken, kbd_vars,
                   atexit_vars, pc, loop_vars, call_vars, sigint, exit_log,
                   reply, set_led_calls, led_error>>

\* with _output_device_lock:
LockOutput ==
    /\ rpc = "lock_output"
    /\ pc # "exited"
    /\ output_device_lock = "free"
    /\ output_device_lock' = "reply"
    /\ rpc' = "read"
    /\ UNCHANGED <<cfg_vars, dev_vars, input_device_lock, out_broken, kbd_vars,
                   atexit_vars, pc, loop_vars, call_vars, sigint, exit_log,
                   rd, reply, set_led_calls, led_error>>

\* reply = int.from_bytes(_output_device.read(1), byteorder="little")
ReadReply ==
    /\ rpc = "read"
    /\ pc # "exited"
    /\ output_device \notin out_broken
    /\ \E b \in 0..MaxReply : reply' = b
    /\ rd' = {}
    /\ output_device_lock' = "free"
    /\ rpc' = "lock_input"
    /\ UNCHANGED <<cfg_vars, dev_vars, input_device_lock, out_broken, kbd_vars,
                   atexit_vars, pc, loop_vars, call_vars, sigint, exit_log,
                   set_led_calls, led_error>>

\* _output_device.read(1) raises: the with block is left and, nothing
\* catching the error, the thread's function ends
ReadReplyFails ==
    /\ rpc = "read"
    /\ pc # "exited"
    /\ output_device \in out_broken
    /\ rd' = {}
    /\ output_device_lock' = "free"
    /\ rpc' = "dead"
    /\ UNCHANGED <<cfg_vars, dev_vars, input_device_lock, out_broken, kbd_vars,
                   atexit_vars, pc, loop_vars, call_vars, sigint, exit_log,
                   reply, set_led_calls, led_error>>

\* with _input_device_lock:
LockInput ==
    /\ rpc = "lock_input"
    /\ pc # "exited"
    /\ input_device_lock = "free"
    /\ input_device_lock' = "reply"
    /\ rpc' = "set_led"
    /\ UNCHANGED <<cfg_vars, dev_vars, output_device_lock, out_broken, kbd_vars,
                   atexit_vars, pc, loop_vars, call_vars, sigint, exit_log,
                   rd, reply, set_led_calls, led_error>>

\* try: the three set_led calls; except: print the error.  k calls succeed;
\* if k < 3, call k + 1 raises and the remaining ones are not made.  The
\* with block is left either way.
SetLeds ==
    /\ rpc = "set_led"
    /\ pc # "exited"
    /\ \E k \in 0..Len(led_calls) :
          /\ set_led_calls' = set_leds(reply, k)
          /\ led_error' = IF k = Len(led_calls) THEN 0 ELSE k + 1
          /\ rpc' = IF k = Len(led_calls) THEN "select" ELSE after_led_error
    /\ input_device_lock' = "free"
    /\ UNCHANGED <<cfg_vars, dev_vars, output_device_lock, out_broken, kbd_vars,
                   atexit_vars, pc, loop_vars, call_vars, sigint, exit_log, rd,
                   reply>>

\* ------------------------------------------------------------ environment
\* the host or the gadget driver goes away: I/O on the handle raises
OutputBreaks ==
    /\ pc # "exited"
    /\ \E h \in (0..(next_out - 1)) \ out_broken :
          out_broken' = out_broken \cup {h}
    /\ UNCHANGED <<cfg_vars, dev_vars, lock_vars, kbd_vars, atexit_vars, pc,
                   loop_vars, call_vars, sigint, exit_log, reply_vars>>

\* the condition clears: I/O on the handle works again
OutputRecovers ==
    /\ pc # "exited"
    /\ \E h \in out_broken : out_broken' = out_broken \ {h}
    /\ UNCHANGED <<cfg_vars, dev_vars, lock_vars, kbd_vars, atexit_vars, pc,
                   loop_vars, call_vars, sigint, exit_log, reply_vars>>

\* ------------------------------------------------------------ specification
Next ==
    \/ LoopLock
    \/ ReadOne
    \/ ReadOneFails
    \/ ProcessSkip
    \/ ProcessKey
    \/ WriteFirst
    \/ OpenOutput
    \/ OpenOutputFails
    \/ SetOutput
    \/ WriteRetry
    \/ OpenInput
    \/ OpenInputFails
    \/ SetInput
    \/ Interrupt
    \/ UngrabInputDevice
    \/ ReleaseAllKeys
    \/ ProcessExit
    \/ Select
    \/ CheckReadable
    \/ LockOutput
    \/ ReadReply
    \/ ReadReplyFails
    \/ LockInput
    \/ SetLeds
    \/ OutputBreaks
    \/ OutputRecovers

Spec == Init /\ [][Next]_vars

\* A read that returns: os.read on a handle select reported readable returns
\* at once, and a read on a broken handle raises at once. A read on a handle
\* that is not readable blocks until the host sends a report, which it need
\* never do.
ReadReturns ==
    \/ ReadReply /\ output_device \in rd
    \/ ReadReplyFails

\* The open loops poll every 0.2 s, so an open that stays possible is made;
\* a thread waiting for a lock gets it if the lock is released again and
\* again; set_led returns.
LiveSpec ==
    /\ Spec
    /\ WF_vars(OpenInput)
    /\ WF_vars(OpenOutput)
    /\ SF_vars(SetInput)
    /\ SF_vars(SetOutput)
    /\ WF_vars(ReadReturns)
    /\ WF_vars(SetLeds)

\* ================================================================ properties
WritePcs == {"write", "write_retry"}
OutputCallPcs == {"write", "reopen_output", "set_output", "write_retry"}

\* the main thread is inside the write_to_output_device call of the event loop
LoopInOutputCall == w_caller = "loop" /\ pc \in OutputCallPcs

\* bit n of byte b is set
BitSet(b, n) == (b \div (2 ^ n)) % 2 = 1

\* C1: when the first write of a report failed and the reopen gave a working
\* handle, the one further write goes to the reopened handle and succeeds, and
\* the call returns normally.
C1_RetryOnReopenedHandle ==
    [][(/\ pc = "write_retry"
        /\ Len(call_writes') = Len(call_writes) + 1
        /\ output_device \notin out_broken)
       => (/\ Len(call_writes') = 2
           /\ ~call_writes'[1].ok
           /\ call_writes'[2].h = output_device
           /\ call_writes'[2].ok
           /\ pc' \in {"loop_lock", "run_exitfuncs"})]_vars

\* C2: a failure of the retried write in the event loop is caught by the loop:
\* the main thread goes on to reopen the input and to the next iteration, and
\* it reaches the exit handlers only through a keyboard interrupt.
C2_RetryFailureNotFatal ==
    [][/\ (/\ pc = "write_retry"
           /\ w_caller = "loop"
           /\ Len(call_writes') = Len(call_writes) + 1
           /\ ~Last(call_writes').ok)
          => (pc' = "reopen_input" /\ input_device_lock' # "main" /\ ~sigint')
       /\ (pc \in {"reopen_input", "set_input"} /\ ~sigint')
          => pc' \in {"reopen_input", "set_input", "loop_lock"}
       /\ pc' \in ExitPcs => sigint']_vars

C2_Witness ==
    /\ pc = "reopen_input"
    /\ w_caller = "loop"
    /\ Len(call_writes) = 2
    /\ ~call_writes[2].ok
    /\ ~sigint

\* C3: at shutdown the grab is released only after all keys were deactivated,
\* all modifiers reset and the all-released report written, in this order.
C3_UngrabAfterTransmit ==
    \A i \in 1..Len(exit_log) :
        exit_log[i] = "ungrab" =>
            \E a, b, c \in 1..Len(exit_log) :
                /\ a < b /\ b < c /\ c < i
                /\ exit_log[a] = "deactivate_all_keys"
                /\ exit_log[b] = "reset_all_modifiers"
                /\ exit_log[c] = "write"

\* C4: handling a key event with keystate 2 changes neither the modifier mask
\* nor the active keys and issues no write: the iteration ends there.
C4_RepeatChangesNothing ==
    [][(pc = "process" /\ o_event.type = EV_KEY /\ o_event.keystate = 2)
       => (/\ modifiers' = modifiers
           /\ active_keys' = active_keys
           /\ call_writes' = call_writes
           /\ pc' \in {"process", "loop_lock", "run_exitfuncs"})]_vars

C4_Witness ==
    /\ pc = "loop_lock"
    /\ o_event.type = EV_KEY
    /\ o_event.keystate = 2
    /\ modifiers # 0
    /\ active_keys # <<>>
    /\ call_writes = <<>>
    /\ ~is_test_mode_enabled

\* C5: in test mode no write to the output device is ever issued.
C5_TestModeNeverWrites ==
    is_test_mode_enabled => call_writes = <<>>

\* C6: the event loop is never at a write on the output handle while the
\* reply listener is at its read of the same handle.
C6_WriteExcludesRead ==
    ~(/\ pc \in WritePcs
      /\ w_caller = "loop"
      /\ rpc = "read"
      /\ w_handle = output_device)

\* C7: the event loop does not hold the input lock while it writes a report
\* or reopens the output device.
C7_InputLockFreeDuringOutput ==
    LoopInOutputCall => input_device_lock # "main"

\* C8: while the process runs, the reply listener has not terminated.
C8_ListenerNeverDies ==
    pc # "exited" => rpc # "dead"

\* C9: when a set_led call fails, the listener releases the input lock and
\* goes back to waiting; the main thread is not affected.
C9_LedFailureCaught ==
    [][(rpc = "set_led" /\ led_error' # 0)
       => (/\ rpc' = "select"
           /\ input_device_lock' = "free"
           /\ pc' = pc
           /\ Len(set_led_calls') = led_error' - 1)]_vars

C9_Witness ==
    /\ led_error = 2
    /\ rpc = "select"
    /\ input_device_lock = "free"
    /\ pc \notin ExitPcs

\* C10: every set_led call made for reply byte b carries bit 0 of b for Num
\* Lock, bit 1 for Caps Lock, bit 2 for Scroll Lock; when no call failed, all
\* three lights were set.
C10_LedsFollowReplyBits ==
    /\ \A i \in 1..Len(set_led_calls) :
          LET c == set_led_calls[i] IN
          /\ c.led \in {"LED_NUML", "LED_CAPSL", "LED_SCROLLL"}
          /\ c.led = "LED_NUML" => (c.on <=> BitSet(reply, 0))
          /\ c.led = "LED_CAPSL" => (c.on <=> BitSet(reply, 1))
          /\ c.led = "LED_SCROLLL" => (c.on <=> BitSet(reply, 2))
    /\ (led_error = 0 /\ set_led_calls # <<>>)
          => {set_led_calls[i].led : i \in 1..Len(set_led_calls)}
               = {"LED_NUML", "LED_CAPSL", "LED_SCROLLL"}

C10_Witness ==
    /\ reply = 5
    /\ led_error = 0
    /\ set_led_calls = <<[led |-> "LED_NUML", on |-> TRUE],
                         [led |-> "LED_CAPSL", on |-> FALSE],
                         [led |-> "LED_SCROLLL", on |-> TRUE]>>

\* C11: a failed read of the input releases the input lock, the input is
\* reopened, the shared handle becomes the newly opened one and the loop reads
\* on from the handle stored at that time; the process does not exit.
C11_ReadFailureReopens ==
    [][/\ (pc = "read_one" /\ pc' = "reopen_input")
          => input_device_lock' # "main"
       /\ (pc = "reopen_input" /\ pc' # pc)
          => pc' \in {"set_input", "run_exitfuncs"}
       /\ (pc = "set_input" /\ pc' # pc)
          => \/ pc' = "run_exitfuncs"
             \/ /\ pc' = "loop_lock"
                /\ input_device' = next_in - 1
                /\ input_device' # input_device
       /\ (pc = "read_one" /\ read_from' # read_from)
          => read_from' = {input_device}
       /\ pc' \in ExitPcs => sigint']_vars

\* (in test mode the loop never writes, so the reopen followed a failed read)
C11_Witness ==
    /\ is_test_mode_enabled
    /\ pc = "process"
    /\ input_device = 1
    /\ read_from = {1}
    /\ ~sigint

\* C13: every byte sequence handed to a write on the output device is eight
\* bytes long.
C13_EightBytesWritten ==
    pc \in WritePcs => Len(w_command) = 8

\* C14: the loop calls activate_key and deactivate_key with non-modifier keys
\* only.
C14_ModifierNotActivated ==
    \A i \in 1..Len(kbd_calls) :
        kbd_calls[i].op \in {"activate_key", "deactivate_key"}
            => kbd_calls[i].code \notin DOMAIN ds_MOD_CODES

\* the keyboard state (m, k) shows the key of event ev as the event left it
StateReflects(ev, m, k) ==
    /\ ev.keycode \in DOMAIN ds_KEY_CODES
          => ((ev.keystate = 1) <=> (ds_KEY_CODES[ev.keycode] \in Range(k)))
    /\ ev.keycode \in DOMAIN ds_MOD_CODES
          => ((ev.keystate = 1)
                <=> ((m \div ds_MOD_CODES[ev.keycode]) % 2 = 1))

\* C15: with test mode off, a press or release event enters
\* write_to_output_device exactly once, with the report of the keyboard state
\* as the event left it; the report and the keyboard do not change during the
\* call, and a call in which no write fails issues one write.  Any other
\* event enters no call.
C15_OneReportPerTransition ==
    [][/\ (pc = "process" /\ pc' \notin {"process", "run_exitfuncs"})
          => IF /\ o_event.type = EV_KEY
                /\ o_event.keystate \in {0, 1}
                /\ ~is_test_mode_enabled
             THEN /\ pc' = "write"
                  /\ w_caller' = "loop"
                  /\ call_writes' = <<>>
                  /\ StateReflects(o_event, modifiers', active_keys')
                  /\ w_command' =
                       encode_utf8(to_hid_command(modifiers', active_keys'))
             ELSE /\ pc' = "loop_lock"
                  /\ w_caller' = "none"
                  /\ call_writes' = <<>>
       /\ (LoopInOutputCall /\ pc' # "run_exitfuncs")
          => /\ w_command' = w_command
             /\ modifiers' = modifiers
             /\ active_keys' = active_keys
             /\ pc' \in OutputCallPcs \cup {"loop_lock", "reopen_input"}
       /\ (LoopInOutputCall /\ pc' = "loop_lock")
          => /\ Last(call_writes').ok
             /\ \A i \in 1..(Len(call_writes') - 1) : ~call_writes'[i].ok
             /\ Len(call_writes') <= 2]_vars

C15_Witness ==
    /\ pc = "loop_lock"
    /\ w_caller = "loop"
    /\ o_event = [type |-> EV_KEY, keycode |-> "KEY_A", keystate |-> 0]
    /\ modifiers = 128
    /\ active_keys = <<>>
    /\ Len(call_writes) = 1
    /\ call_writes[1].ok

\* C16: the input device is reopened only after a failed read, never after
\* failures of the write path.
C16_InputReopenOnlyAfterReadFailure ==
    pc \in {"reopen_input", "set_input"} => call_writes = <<>>

\* C17: until shutdown the handle stored as the input device holds the
\* exclusive grab.
C17_InputHandleGrabbed ==
    ~sigint => input_device \in grabbed

\* C18: at shutdown the all-released report is written to the output handle
\* stored at that moment and the grab is released on the input handle stored
\* at that moment.
C18_ExitUsesCurrentHandles ==
    [][/\ (w_caller = "exit" /\ Len(call_writes') = Len(call_writes) + 1)
          => Last(call_writes').h = output_device
       /\ (Len(exit_log') = Len(exit_log) + 1 /\ Last(exit_log') = "ungrab")
          => grabbed' = grabbed \ {input_device}]_vars

\* C19: the listener's read is made on a handle its select reported readable.
C19_ReadOnReadyHandle ==
    rpc = "read" => output_device \in rd

MainWaitsForReply ==
    \/ pc \in {"loop_lock", "set_input"} /\ input_device_lock = "reply"
    \/ pc = "set_output" /\ output_device_lock = "reply"

ReplyWaitsForMain ==
    \/ rpc = "lock_input" /\ input_device_lock = "main"
    \/ rpc = "lock_output" /\ output_device_lock = "main"

\* C20: the two threads never wait for each other's lock, and a thread holds
\* a lock only inside the block that acquired it.
C20_NoLockDeadlock ==
    /\ ~(MainWaitsForReply /\ ReplyWaitsForMain)
    /\ input_device_lock = "main"
          => (pc \in {"read_one", "process"} \/ LoopInOutputCall)
    /\ input_device_lock = "reply" => rpc = "set_led"
    /\ output_device_lock = "reply" => rpc = "read"
    /\ output_device_lock # "main"

\* (the main thread holds the input lock and waits for the output lock, which
\* the listener holds)
C20_Witness ==
    /\ pc = "set_output"
    /\ input_device_lock = "main"
    /\ output_device_lock = "reply"

\* C12: a failed open is retried without bound, and once the node can be
\* opened and stays so, the open loop ends and the shared handle becomes the
\* newly opened device (or the process has been interrupted meanwhile), for
\* the input device and for the output device.
C12_OpenLoopSetsHandle ==
    /\ (pc = "reopen_input" /\ next_in < MaxInOpens)
         ~> ((pc = "loop_lock" /\ input_device = next_in - 1) \/ pc \in ExitPcs)
    /\ (pc = "reopen_output" /\ next_out < MaxOutOpens)
         ~> ((pc = "write_retry" /\ output_device = next_out - 1) \/ pc \in ExitPcs)

\* The input half of C12 alone: holds under LiveSpec, since the listener holds
\* the input lock only for the three set_led calls.
C12_InputLoopSetsHandle ==
    (pc = "reopen_input" /\ next_in < MaxInOpens)
         ~> ((pc = "loop_lock" /\ input_device = next_in - 1) \/ pc \in ExitPcs)

====
